---- MODULE Spec2Model ----
(***************************************************************************)
(* Titan Manufacturing: the pgvector embedding backfill                    *)
(* (scripts/generate_embeddings.py).  One process runs main() against the  *)
(* products table; the process may be killed at any step and main() may be *)
(* started again.  The products table is seen twice: `committed` is what   *)
(* the store holds durably, `txn` is what the script's connection sees     *)
(* (committed rows plus its own uncommitted UPDATEs).                      *)
(* The catalog setup (config/openmetadata/setup-titan.py) is a second,     *)
(* independent process: readiness polling, then a fixed sequence of REST   *)
(* calls against the catalog (specification SpecSetup).                    *)
(***************************************************************************)
EXTENDS Integers, Sequences, FiniteSets, TLC

\* ---------------------------------------------------------------- bounds
\* longest vector handed to format_embedding_for_pgvector on its own
MaxDim == 3
\* how often a pure function is called on the same input
MaxCalls == 2
\* largest products table of the general specification
NumRecords == 3
\* largest BATCH_SIZE tried
MaxBatch == 2
\* number of times main() is started
MaxRuns == 2
\* table size of the scenario specification (two full batches and a rest)
ScenarioRecords == 5
\* BATCH_SIZE of the scenario specification
ScenarioBatch == 2
\* range(60): readiness probes of wait_for_openmetadata
PollAttempts == 60
\* tables walked by each of the two enrichment loops (16 and 19 in the code)
NumTables == 2
\* number of times setup-titan.py is started
MaxSetupRuns == 2

\* ------------------------------------------------------------ vocabulary
\* the embedding column of a row without an embedding
NULL == <<>>
\* an embedding written before the first modelled run
OldVector == <<7, 7>>
\* the vectors the provider may answer with (numbers stand for floats)
ProviderVectors == {<<1, -2>>}
\* what generate_embedding can hand back: None, an empty list, a vector
None == [ok |-> FALSE, data |-> <<>>]
EmptyList == [ok |-> TRUE, data |-> <<>>]
Some(v) == [ok |-> TRUE, data |-> v]

\* the three kinds of OPENAI_BASE_URL the script tells apart
OPENAI_URL == "https://api.openai.com/v1"
LOCAL_URL == "http://localhost:11434/v1"
OTHER_URL == "https://embeddings.example.org/v1"
BaseUrls == {OPENAI_URL, LOCAL_URL, OTHER_URL}
\* `"localhost" in OPENAI_BASE_URL`
HasLocalhost(url) == url = LOCAL_URL
\* mutant: the pacing test is always true
HasOpenAI_Always(url) == TRUE

\* `"openai.com" in OPENAI_BASE_URL`
HasOpenAI(url) == url = OPENAI_URL

VARIABLES
    rows,            \* the skus of the products table
    is_active,       \* products.is_active, per sku
    committed,       \* products.embedding as durably stored, per sku
    txn,             \* products.embedding as the open connection sees it
    txAborted,       \* the connection's transaction is in the failed state
    OPENAI_API_KEY,  \* "" when the variable is unset
    OPENAI_BASE_URL,
    BATCH_SIZE,
    pc,              \* position of the process inside main()
    exit_code,       \* -1 while running or killed, else the exit status
    existing_count, total_count, final_count,
    products,        \* the fetched work list (skus, ascending)
    i,               \* loop index
    embedding,       \* result of the last generate_embedding call
    success_count, error_count,
    run,             \* how many times main() has been started
    calls,           \* provider calls of this run: skus, 0 for the probe
    writes,          \* skus this run has issued a successful UPDATE for
    events,          \* commits, reports, sleeps ... of this run, in order
    atFetch,         \* the embedding column as read by the fetch query
    failed,          \* ghost: what went wrong in this run
    prev,            \* ghost: how the previous run went
    product,         \* a row handed to create_product_text
    texts,           \* what the successive calls on `product` returned
    vector,          \* an embedding handed to format_embedding_for_pgvector
    literals,        \* what the successive calls on `vector` returned
    catalog,         \* OpenMetadata: which Titan entities it holds
    setup_pc,        \* position of setup-titan.py inside its main()
    setup_run,       \* how many times setup-titan.py has been started
    setup_exit,      \* -1 while running, else its exit status
    attempts,        \* readiness probes made by wait_for_openmetadata
    resp_status,     \* what the last probe answered (see ProbeAnswers)
    answered200,     \* ghost: some probe of this run answered status 200
    ready,           \* what wait_for_openmetadata returned
    service_status,  \* status of the service registration POST, 0 if none
    service_id,
    pipeline_status, \* status of the pipeline creation POST, 0 if none
    pipeline_id,
    table_i,         \* index into the tables of the two enrichment loops
    success,         \* patched tables of the running enrichment loop
    requests         \* catalog calls and waits of this run, in order

vars == <<rows, is_active, committed, txn, txAborted, OPENAI_API_KEY,
          OPENAI_BASE_URL, BATCH_SIZE, pc, exit_code, existing_count,
          total_count, final_count, products, i, embedding, success_count,
          error_count, run, calls, writes, events, atFetch, failed, prev,
          product, texts, vector, literals, catalog, setup_pc, setup_run,
          setup_exit, attempts, resp_status, answered200, ready,
          service_status, service_id, pipeline_status, pipeline_id, table_i,
          success, requests>>

\* the inputs and outputs of the two pure functions when they are exercised
\* on their own (specification SpecPure)
pure == <<product, texts, vector, literals>>
\* the state of the catalog setup (config/openmetadata/setup-titan.py)
setup == <<catalog, setup_pc, setup_run, setup_exit, attempts, resp_status,
           answered200, ready, service_status, service_id, pipeline_status,
           pipeline_id, table_i, success, requests>>
config == <<rows, is_active, OPENAI_API_KEY, OPENAI_BASE_URL, BATCH_SIZE,
            pure, setup>>
locals == <<existing_count, total_count, final_count, products, i, embedding,
            success_count, error_count>>

\* ------------------------------------------------------------- helpers
RECURSIVE SetToSortedSeq(_)
\* ORDER BY sku
SetToSortedSeq(S) ==
    IF S = {} THEN <<>>
    ELSE LET m == CHOOSE x \in S : \A y \in S : x <= y
         IN <<m>> \o SetToSortedSeq(S \ {m})

SeqToSet(s) == {s[k] : k \in 1..Len(s)}

\* mutant: `if embedding is not None:`
Truthy_NotNone(e) == e.ok

\* Python truthiness of generate_embedding's result (`if embedding:`)
Truthy(e) == e.ok /\ Len(e.data) > 0

NoFailure == [provider |-> {}, store |-> {}]
NoPrev == [outcome |-> "none", fetched |-> FALSE, finalDone |-> FALSE,
           products |-> <<>>, covered |-> 0, errors |-> 0,
           failed |-> NoFailure, calls |-> <<>>, committed |-> <<>>]

\* ------------------------------------------------- pure parts of the script
\* mutant: the elements are joined with ", " (as str(list) does)
Join_CommaSpace(strs) ==
    [k \in 1..(IF Len(strs) = 0 THEN 0 ELSE 2 * Len(strs) - 1) |->
        IF k % 2 = 1 THEN strs[(k + 1) \div 2] ELSE ", "]

RECURSIVE Join(_)
\* ",".join(strs), a string being a sequence of tokens
Join(strs) ==
    IF Len(strs) = 0 THEN <<>>
    ELSE IF Len(strs) = 1 THEN <<strs[1]>>
    ELSE <<strs[1], ",">> \o Join(Tail(strs))

\* the numbers a vector element may be: x stands for the float x / 10
Elems == -9..9

\* str(x) of the float x / 10: "0.1", "-0.2", "0.0"
str(x) == (IF x < 0 THEN "-" ELSE "") \o "0." \o ToString(IF x < 0 THEN -x ELSE x)

\* "[" + ",".join(str(x) for x in embedding) + "]"
format_embedding_for_pgvector(e) ==
    <<"[">> \o Join([k \in 1..Len(e) |-> str(e[k])]) \o <<"]">>

\* the store's reading of `%s::vector`: drop the brackets, split on commas
CastToVector(lit) ==
    LET inner == SubSeq(lit, 2, Len(lit) - 1)
    IN [k \in 1..((Len(inner) + 1) \div 2) |->
            CHOOSE x \in Elems : str(x) = inner[2 * k - 1]]

\* a nullable text column: NULL comes back as None
PyNone == [null |-> TRUE, s |-> ""]
PyStr(x) == [null |-> FALSE, s |-> x]

\* mutant: `if description is not None:` in place of `if description:`
Present_NotNone(f) == ~f.null

\* Python truthiness of a nullable text (`if description:`)
Present(f) == ~f.null /\ f.s # ""

\* a Python string as tokens; the empty string has none
Tok(x) == IF x = "" THEN <<>> ELSE <<x>>

RECURSIVE JoinParts(_, _)
\* sep.join(parts), each part and the result being token sequences
JoinParts(parts, sep) ==
    IF Len(parts) = 0 THEN <<>>
    ELSE IF Len(parts) = 1 THEN parts[1]
    ELSE parts[1] \o <<sep>> \o JoinParts(Tail(parts), sep)

\* the dictionary division_names of lines 86-91
DivisionCodes == {"AERO", "ENERGY", "MOBILITY", "INDUSTRIAL"}
division_names(code) ==
    CASE code = "AERO" ->
            "Aerospace Division - turbine blades, engine housings, landing gear"
      [] code = "ENERGY" ->
            "Energy Division - wind turbines, solar frames, valves"
      [] code = "MOBILITY" ->
            "Mobility Division - EV motors, battery enclosures"
      [] code = "INDUSTRIAL" ->
            "Industrial Division - CNC parts, bearings, hydraulics"

\* division_names.get(division_id, f"Division: {division_id}")
DivisionText(code) ==
    IF code \in DivisionCodes THEN <<division_names(code)>>
    ELSE <<"Division: ">> \o Tok(code)

\* create_product_text, lines 66-94; p is the row
\* (sku, name, description, category, subcategory, division_id)
create_product_text(p) ==
    LET name == p[2]
        description == p[3]
        category == p[4]
        subcategory == p[5]
        division_id == p[6]
        parts ==
            <<Tok(name)>>
            \o (IF Present(description) THEN <<Tok(description.s)>> ELSE <<>>)
            \o (IF Present(category)
                THEN << <<"Category: ">> \o Tok(category.s) >> ELSE <<>>)
            \o (IF Present(subcategory)
                THEN << <<"Subcategory: ">> \o Tok(subcategory.s) >> ELSE <<>>)
            \o (IF Present(division_id)
                THEN <<DivisionText(division_id.s)>> ELSE <<>>)
    IN JoinParts(parts, ". ")

\* the rows create_product_text is exercised on
NullableTexts(values) == {PyNone, PyStr("")} \cup {PyStr(x) : x \in values}
Products ==
    {"TB-1001"} \X {"Turbine Blade", ""}
        \X NullableTexts({"High-temperature alloy blade"})
        \X NullableTexts({"Engine Components"})
        \X NullableTexts({"Blades"})
        \X NullableTexts(DivisionCodes \cup {"MARINE"})
NoProduct == <<"", "", PyNone, PyNone, PyNone, PyNone>>

\* the non-empty vectors format_embedding_for_pgvector is exercised on
VectorElems == {1, -2, 3}
Vectors == UNION {[1..n -> VectorElems] : n \in 1..MaxDim}

\* SELECT COUNT(*) FROM products WHERE embedding IS NOT NULL
CountEmbedded(view) == Cardinality({s \in rows : view[s] # NULL})

\* SELECT COUNT(*) FROM products WHERE is_active = TRUE
CountActive == Cardinality({s \in rows : is_active[s]})

\* mutant: the fetch query without `AND embedding IS NULL`
PendingSkus_AllActive(view) == {s \in rows : is_active[s]}

\* WHERE is_active = TRUE AND embedding IS NULL
PendingSkus(view) == {s \in rows : is_active[s] /\ view[s] = NULL}

\* ... ORDER BY sku ; cur.fetchall()
FetchPending(view) == SetToSortedSeq(PendingSkus(view))

\* if existing_count == total_count
AlreadyComplete(existing, total) == existing = total

\* mutant: `if i > 0 and i % BATCH_SIZE == 0`
AtBatchBoundary_ZeroBased(idx, bs) == idx > 0 /\ idx % bs = 0

\* mutant: no commit inside the loop
AtBatchBoundary_Never(idx, bs) == FALSE

\* if (i + 1) % BATCH_SIZE == 0
AtBatchBoundary(idx, bs) == (idx + 1) % bs = 0

\* `for i, product in enumerate(products)`: next iteration or leave the loop
LoopHead(idx, list) == IF idx < Len(list) THEN "embed" ELSE "final"

\* mutant: the commit does not make the writes durable
AfterCommit_NotPersisted(durable, view, aborted) == durable

\* conn.commit(): COMMIT of a failed transaction rolls it back
AfterCommit(durable, view, aborted) == IF aborted THEN durable ELSE view

Event(kind, at) == [kind |-> kind, at |-> at]

\* the sku of the record the loop is at
CurrentSku == products[i + 1]

\* number of work-list records covered by this run's in-loop commits
Covered ==
    LET cs == {events[k].at : k \in {j \in 1..Len(events) : events[j].kind = "commit"}}
    IN IF cs = {} THEN 0 ELSE CHOOSE m \in cs : \A x \in cs : x <= m

Running == {"start", "connect", "status", "check", "embed", "update",
            "batch", "final", "verify", "probe"}

\* ----------------------------------------------------------------- Init
\* ------------------------------------------------ the catalog setup, idle
\* None, as returned by .get("id") or by the functions themselves
NoId == ""

\* a fresh process of setup-titan.py, before main() has done anything
FreshSetup ==
    /\ setup_exit = -1
    /\ attempts = 0 /\ resp_status = 0 /\ answered200 = FALSE
    /\ ready = "pending"
    /\ service_status = 0 /\ service_id = NoId
    /\ pipeline_status = 0 /\ pipeline_id = NoId
    /\ table_i = 0 /\ success = 0
    /\ requests = <<>>

\* setup-titan.py is not started
SetupIdle ==
    /\ catalog = [service |-> FALSE, pipeline |-> FALSE]
    /\ setup_pc = "idle"
    /\ setup_run = 0
    /\ FreshSetup

FreshProcess ==
    /\ pc = "start"
    /\ exit_code = -1
    /\ existing_count = 0 /\ total_count = 0 /\ final_count = 0
    /\ products = <<>> /\ i = 0 /\ embedding = None
    /\ success_count = 0 /\ error_count = 0
    /\ calls = <<>> /\ writes = {} /\ events = <<>>
    /\ failed = NoFailure

Init ==
    /\ rows \in {1..n : n \in 0..NumRecords}
    /\ is_active \in [rows -> BOOLEAN]
    /\ committed \in [rows -> {NULL, OldVector}]
    /\ txn = committed
    /\ txAborted = FALSE
    /\ OPENAI_API_KEY \in {"", "sk-titan"}
    /\ OPENAI_BASE_URL \in BaseUrls
    /\ BATCH_SIZE \in 1..MaxBatch
    /\ FreshProcess
    /\ atFetch = committed
    /\ run = 1
    /\ prev = [NoPrev EXCEPT !.committed = committed]
    /\ SetupIdle
    /\ product = NoProduct /\ texts = <<>>
    /\ vector = <<>> /\ literals = <<>>

\* -------------------------------------------------------------- actions
\* mutant: the credential check is left out
ValidateKey_NoCheck ==
    /\ pc = "start"
    /\ pc' = "connect"
    /\ UNCHANGED <<config, committed, txn, txAborted, exit_code, locals, run,
                   calls, writes, events, atFetch, failed, prev>>

\* main, lines 120-137: the credential check
ValidateKey ==
    /\ pc = "start"
    /\ IF OPENAI_API_KEY = "" /\ ~HasLocalhost(OPENAI_BASE_URL)
       THEN pc' = "exited" /\ exit_code' = 1
       ELSE pc' = "connect" /\ exit_code' = exit_code
    /\ UNCHANGED <<config, committed, txn, txAborted, locals, run, calls,
                   writes, events, atFetch, failed, prev>>

\* main, lines 139-144: the connection is established
ConnectOk ==
    /\ pc = "connect"
    /\ pc' = "status"
    /\ txn' = committed
    /\ txAborted' = FALSE
    /\ UNCHANGED <<config, committed, exit_code, locals, run, calls, writes,
                   events, atFetch, failed, prev>>

\* main, lines 145-147: the connection cannot be established
ConnectFail ==
    /\ pc = "connect"
    /\ pc' = "exited"
    /\ exit_code' = 1
    /\ UNCHANGED <<config, committed, txn, txAborted, locals, run, calls,
                   writes, events, atFetch, failed, prev>>

\* main, lines 149-159: the two counts
CheckStatus ==
    /\ pc = "status"
    /\ existing_count' = CountEmbedded(txn)
    /\ total_count' = CountActive
    /\ pc' = "check"
    /\ UNCHANGED <<config, committed, txn, txAborted, exit_code, final_count,
                   products, i, embedding, success_count, error_count, run,
                   calls, writes, events, atFetch, failed, prev>>

\* main, lines 161-165: the early return
NothingToDo ==
    /\ pc = "check"
    /\ AlreadyComplete(existing_count, total_count)
    /\ events' = Append(events, Event("nothing_to_do", 0))
    /\ pc' = "exited"
    /\ exit_code' = 0
    /\ txn' = committed
    /\ UNCHANGED <<config, committed, txAborted, locals, run, calls, writes,
                   atFetch, failed, prev>>

\* main, lines 167-182: the work list is fetched, the counters start at 0
FetchProducts ==
    /\ pc = "check"
    /\ ~AlreadyComplete(existing_count, total_count)
    /\ products' = FetchPending(txn)
    /\ atFetch' = txn
    /\ success_count' = 0
    /\ error_count' = 0
    /\ i' = 0
    /\ events' = Append(events, Event("fetch", Len(products')))
    /\ pc' = LoopHead(0, products')
    /\ UNCHANGED <<config, committed, txn, txAborted, exit_code,
                   existing_count, total_count, final_count, embedding, run,
                   calls, writes, failed, prev>>

\* generate_embedding, lines 97-104, called at line 189: a vector comes back
GenerateOk ==
    /\ pc = "embed"
    /\ \E v \in ProviderVectors : embedding' = Some(v)
    /\ calls' = Append(calls, CurrentSku)
    /\ pc' = "update"
    /\ UNCHANGED <<config, committed, txn, txAborted, exit_code,
                   existing_count, total_count, final_count, products, i,
                   success_count, error_count, run, writes, events, atFetch,
                   failed, prev>>

\* mutant: a failed provider call is tried again
GenerateFail_Retry ==
    /\ pc = "embed"
    /\ embedding' \in {None, EmptyList}
    /\ calls' = Append(calls, CurrentSku)
    /\ pc' = IF Len(calls) < 2 * Len(products) THEN "embed" ELSE "update"
    /\ UNCHANGED <<config, committed, txn, txAborted, exit_code,
                   existing_count, total_count, final_count, products, i,
                   success_count, error_count, run, writes, events, atFetch,
                   failed, prev>>

\* mutant: generate_embedding without its try/except, the provider's
\* exception ends the process with a traceback
GenerateFail_Raises ==
    /\ pc = "embed"
    /\ calls' = Append(calls, CurrentSku)
    /\ pc' = "exited"
    /\ exit_code' = 1
    /\ UNCHANGED <<config, committed, txn, txAborted, locals, run, writes,
                   events, atFetch, failed, prev>>

\* generate_embedding, lines 105-107 (an exception, None is returned) or an
\* answer carrying an empty vector
GenerateFail ==
    /\ pc = "embed"
    /\ embedding' \in {None, EmptyList}
    /\ calls' = Append(calls, CurrentSku)
    /\ pc' = "update"
    /\ UNCHANGED <<config, committed, txn, txAborted, exit_code,
                   existing_count, total_count, final_count, products, i,
                   success_count, error_count, run, writes, events, atFetch,
                   failed, prev>>

\* main, lines 191-199: the UPDATE is accepted
UpdateOk ==
    /\ pc = "update"
    /\ Truthy(embedding)
    /\ ~txAborted
    /\ txn' = [txn EXCEPT ![CurrentSku] =
                   CastToVector(format_embedding_for_pgvector(embedding.data))]
    /\ success_count' = success_count + 1
    /\ writes' = writes \cup {CurrentSku}
    /\ pc' = "batch"
    /\ UNCHANGED <<config, committed, txAborted, exit_code, existing_count,
                   total_count, final_count, products, i, embedding,
                   error_count, run, calls, events, atFetch, failed, prev>>

\* mutant: `except Exception: pass`, the rejected UPDATE is not counted
UpdateRejected_NoCount ==
    /\ pc = "update"
    /\ Truthy(embedding)
    /\ txAborted' = TRUE
    /\ failed' = [failed EXCEPT !.store = @ \cup {CurrentSku}]
    /\ pc' = "batch"
    /\ UNCHANGED <<config, committed, txn, exit_code, locals, run, calls,
                   writes, events, atFetch, prev>>

\* main, lines 194-202: the UPDATE raises (the store rejects it, or the
\* transaction is already in the failed state); the transaction is failed
\* from here to the next commit
UpdateRejected ==
    /\ pc = "update"
    /\ Truthy(embedding)
    /\ txAborted' = TRUE
    /\ error_count' = error_count + 1
    /\ failed' = [failed EXCEPT !.store = @ \cup {CurrentSku}]
    /\ pc' = "batch"
    /\ UNCHANGED <<config, committed, txn, exit_code, existing_count,
                   total_count, final_count, products, i, embedding,
                   success_count, run, calls, writes, events, atFetch, prev>>

\* mutant: a failed embedding ends the loop (`break`)
EmbeddingMissing_Break ==
    /\ pc = "update"
    /\ ~Truthy(embedding)
    /\ error_count' = error_count + 1
    /\ failed' = [failed EXCEPT !.provider = @ \cup {CurrentSku}]
    /\ pc' = "final"
    /\ UNCHANGED <<config, committed, txn, txAborted, exit_code,
                   existing_count, total_count, final_count, products, i,
                   embedding, success_count, run, calls, writes, events,
                   atFetch, prev>>

\* main, lines 203-204: no embedding came back
EmbeddingMissing ==
    /\ pc = "update"
    /\ ~Truthy(embedding)
    /\ error_count' = error_count + 1
    /\ failed' = [failed EXCEPT !.provider = @ \cup {CurrentSku}]
    /\ pc' = "batch"
    /\ UNCHANGED <<config, committed, txn, txAborted, exit_code,
                   existing_count, total_count, final_count, products, i,
                   embedding, success_count, run, calls, writes, events,
                   atFetch, prev>>

\* mutant: the progress report is printed before the commit
BatchEvents_ReportFirst(idx, url) ==
    <<Event("report", idx + 1), Event("commit", idx + 1)>>
        \o (IF HasOpenAI(url) THEN <<Event("sleep", idx + 1)>> ELSE <<>>)

\* what lines 207-217 print and do around the commit of record idx
BatchEvents(idx, url) ==
    <<Event("commit", idx + 1), Event("report", idx + 1)>>
        \o (IF HasOpenAI(url) THEN <<Event("sleep", idx + 1)>> ELSE <<>>)

\* main, lines 206-217: commit, progress report and pacing sleep
BatchCommit ==
    /\ pc = "batch"
    /\ AtBatchBoundary(i, BATCH_SIZE)
    /\ committed' = AfterCommit(committed, txn, txAborted)
    /\ txn' = committed'
    /\ txAborted' = FALSE
    /\ events' = events \o BatchEvents(i, OPENAI_BASE_URL)
    /\ i' = i + 1
    /\ pc' = LoopHead(i', products)
    /\ UNCHANGED <<config, exit_code, existing_count, total_count,
                   final_count, products, embedding, success_count,
                   error_count, run, calls, writes, atFetch, failed, prev>>

\* main, line 207 false: on to the next record
NoBatchCommit ==
    /\ pc = "batch"
    /\ ~AtBatchBoundary(i, BATCH_SIZE)
    /\ i' = i + 1
    /\ pc' = LoopHead(i', products)
    /\ UNCHANGED <<config, committed, txn, txAborted, exit_code,
                   existing_count, total_count, final_count, products,
                   embedding, success_count, error_count, run, calls, writes,
                   events, atFetch, failed, prev>>

\* main, lines 219-225: the final commit and the summary
FinalCommit ==
    /\ pc = "final"
    /\ committed' = AfterCommit(committed, txn, txAborted)
    /\ txn' = committed'
    /\ txAborted' = FALSE
    /\ events' = events \o <<Event("final_commit", i), Event("summary", i)>>
    /\ pc' = "verify"
    /\ UNCHANGED <<config, exit_code, locals, run, calls, writes, atFetch,
                   failed, prev>>

\* main, lines 227-230: the verification count
Verify ==
    /\ pc = "verify"
    /\ final_count' = CountEmbedded(txn)
    /\ events' = Append(events, Event("verify", final_count'))
    /\ pc' = "probe"
    /\ UNCHANGED <<config, committed, txn, txAborted, exit_code,
                   existing_count, total_count, products, i, embedding,
                   success_count, error_count, run, calls, writes, atFetch,
                   failed, prev>>

\* mutant: the probe runs without the `if success_count > 0` guard
Probe_Always ==
    /\ pc = "probe"
    /\ calls' = Append(calls, 0)
    /\ \E r \in {None, EmptyList} \cup {Some(v) : v \in ProviderVectors} :
          events' = Append(events,
                       Event(IF Truthy(r) THEN "probe" ELSE "probe_failed", 0))
    /\ pc' = "exited"
    /\ exit_code' = 0
    /\ UNCHANGED <<config, committed, txn, txAborted, locals, run, writes,
                   atFetch, failed, prev>>

\* main, lines 232-262: the similarity probe runs (its provider call may
\* fail, then nothing is queried), the connection is closed, main returns
Probe ==
    /\ pc = "probe"
    /\ success_count > 0
    /\ calls' = Append(calls, 0)
    /\ \E r \in {None, EmptyList} \cup {Some(v) : v \in ProviderVectors} :
          events' = Append(events,
                       Event(IF Truthy(r) THEN "probe" ELSE "probe_failed", 0))
    /\ pc' = "exited"
    /\ exit_code' = 0
    /\ UNCHANGED <<config, committed, txn, txAborted, locals, run, writes,
                   atFetch, failed, prev>>

\* main, line 233 false, then lines 257-262
SkipProbe ==
    /\ pc = "probe"
    /\ ~(success_count > 0)
    /\ pc' = "exited"
    /\ exit_code' = 0
    /\ UNCHANGED <<config, committed, txn, txAborted, locals, run, calls,
                   writes, events, atFetch, failed, prev>>

\* the process is killed: the open transaction is lost
Crash ==
    /\ pc \in Running
    /\ pc' = "killed"
    /\ txn' = committed
    /\ txAborted' = FALSE
    /\ UNCHANGED <<config, committed, exit_code, locals, run, calls, writes,
                   events, atFetch, failed, prev>>

HasEvent(kind) == \E k \in 1..Len(events) : events[k].kind = kind

\* what a finished or killed run leaves for the ghost record `prev`
RunSummary ==
    [outcome   |-> IF pc = "killed" THEN "killed"
                   ELSE IF exit_code = 1 THEN "fatal"
                   ELSE IF HasEvent("nothing_to_do") THEN "nothing_to_do"
                   ELSE "completed",
     fetched   |-> HasEvent("fetch"),
     finalDone |-> HasEvent("final_commit"),
     products  |-> products,
     covered   |-> Covered,
     errors    |-> error_count,
     failed    |-> failed,
     calls     |-> calls,
     committed |-> committed]

\* main() is started again in a new process
Rerun ==
    /\ pc \in {"exited", "killed"}
    /\ run < MaxRuns
    /\ run' = run + 1
    /\ prev' = RunSummary
    /\ pc' = "start"
    /\ exit_code' = -1
    /\ existing_count' = 0 /\ total_count' = 0 /\ final_count' = 0
    /\ products' = <<>> /\ i' = 0 /\ embedding' = None
    /\ success_count' = 0 /\ error_count' = 0
    /\ calls' = <<>> /\ writes' = {} /\ events' = <<>>
    /\ failed' = NoFailure
    /\ UNCHANGED <<config, committed, txn, txAborted, atFetch>>

Next ==
    \/ ValidateKey \/ ConnectOk \/ ConnectFail \/ CheckStatus
    \/ NothingToDo \/ FetchProducts
    \/ GenerateOk \/ GenerateFail
    \/ UpdateOk \/ UpdateRejected \/ EmbeddingMissing
    \/ BatchCommit \/ NoBatchCommit
    \/ FinalCommit \/ Verify \/ Probe \/ SkipProbe
    \/ Crash \/ Rerun

Spec == Init /\ [][Next]_vars

\* the scenario of the spec's section 8, scaled: every record eligible, the
\* work list is two full batches and a partial one, the provider is the
\* default one (line 52)
InitScenario ==
    /\ rows = 1..ScenarioRecords
    /\ is_active = [s \in rows |-> TRUE]
    /\ committed = [s \in rows |-> NULL]
    /\ txn = committed
    /\ txAborted = FALSE
    /\ OPENAI_API_KEY = "sk-titan"
    /\ OPENAI_BASE_URL = OPENAI_URL
    /\ BATCH_SIZE = ScenarioBatch
    /\ FreshProcess
    /\ atFetch = committed
    /\ run = 1
    /\ prev = [NoPrev EXCEPT !.committed = committed]
    /\ SetupIdle
    /\ product = NoProduct /\ texts = <<>>
    /\ vector = <<>> /\ literals = <<>>

SpecScenario == InitScenario /\ [][Next]_vars

\* ------------------------------------------------------------ vocabulary of the claims
Count(kind) == Cardinality({k \in 1..Len(events) : events[k].kind = kind})

\* the run got past the loop and printed its summary
Summarised == HasEvent("summary")

\* the run has decided what it will work on
WorkDecided == HasEvent("fetch") \/ HasEvent("nothing_to_do")

\* rows whose UPDATE is written but not committed
PendingWrites == {s \in rows : txn[s] # committed[s]}

\* position of a sku in the work list (0 when absent)
PosOf(s) == IF \E k \in 1..Len(products) : products[k] = s
            THEN CHOOSE k \in 1..Len(products) : products[k] = s
            ELSE 0

\* ---------------------------------------------------------------- C1
\* C1: never-overwrite.  In every run, the provider is called for, and an
\* UPDATE is issued for, only records whose embedding was NULL when the run
\* fetched its work list; and no step (commit, kill, rerun) ever changes an
\* embedding the store already holds.
C1_CallsAndWritesOnlyMissing ==
    /\ \A k \in 1..Len(calls) : calls[k] # 0 => atFetch[calls[k]] = NULL
    /\ \A s \in writes : atFetch[s] = NULL

C1_NeverOverwrite ==
    /\ []C1_CallsAndWritesOnlyMissing
    /\ [][\A s \in rows : committed[s] # NULL => committed'[s] = committed[s]]_vars

\* a later run writes a record while the store holds an older embedding and
\* one committed by the run before
C1_Witness ==
    /\ run > 1
    /\ writes # {}
    /\ \E s \in rows : atFetch[s] = OldVector
    /\ \E s \in rows : atFetch[s] \in ProviderVectors

\* ---------------------------------------------------------------- C2
\* C2: completeness.  When main() has returned and no provider call and no
\* UPDATE of the run failed, every active record has an embedding.
C2_Completeness ==
    (pc = "exited" /\ exit_code = 0 /\ failed = NoFailure)
        => \A s \in rows : is_active[s] => committed[s] # NULL

\* ---------------------------------------------------------------- C3
\* C3: the run takes the "nothing to do" return only when no record is
\* eligible (active and without embedding).
C3_EarlyExitOnlyWhenComplete ==
    HasEvent("nothing_to_do") => PendingSkus(committed) = {}

\* ---------------------------------------------------------------- C4
\* C4 as claimed: a run that follows a run which ran to its end makes no
\* provider call.
C4_SecondRunNoCalls_Original ==
    (run > 1 /\ prev.outcome \in {"completed", "nothing_to_do"})
        => calls = <<>>

\* C4 as amended: a run that follows a run which ran to its end and counted
\* no error makes no provider call.
C4_SecondRunNoCalls ==
    (run > 1 /\ prev.outcome \in {"completed", "nothing_to_do"}
             /\ prev.errors = 0)
        => calls = <<>>

\* the first run embedded records without an error, the second has returned
C4_Witness ==
    /\ run > 1
    /\ prev.outcome = "completed"
    /\ prev.errors = 0
    /\ Len(prev.calls) > 1
    /\ pc = "exited"
    /\ exit_code = 0

\* ---------------------------------------------------------------- C5
\* C5: when the previous run was killed inside the loop after its k-th batch
\* commit (k >= 1), with no failure up to there, the work of the next run
\* is exactly the previous work list without its first k*BATCH_SIZE records,
\* and every embedding the previous run committed is still in the store.
C5_RecoversRemainder ==
    (/\ run > 1
     /\ prev.outcome = "killed" /\ prev.fetched /\ ~prev.finalDone
     /\ prev.covered >= 1
     /\ prev.failed = NoFailure
     /\ WorkDecided)
        => /\ products = SubSeq(prev.products, prev.covered + 1,
                                Len(prev.products))
           /\ \A s \in rows : prev.committed[s] # NULL
                                 => committed[s] = prev.committed[s]

\* ---------------------------------------------------------------- C6
\* C6: at every point the UPDATEs written but not committed are at most
\* BATCH_SIZE, and all of them belong to records after the last committed
\* batch: a kill loses at most one batch and nothing of a committed batch.
C6_BoundedLoss ==
    /\ Cardinality(PendingWrites) <= BATCH_SIZE
    /\ \A s \in PendingWrites : PosOf(s) > Covered

\* a whole batch is written and not yet committed, after an earlier commit
C6_Witness ==
    /\ pc = "batch"
    /\ BATCH_SIZE > 1
    /\ Covered >= BATCH_SIZE
    /\ Cardinality(PendingWrites) = BATCH_SIZE

\* ---------------------------------------------------------------- C7
\* the loop positions (1-based) of the records handled so far at which
\* line 207 holds
BoundariesPassed == {idx \in 1..i : idx % BATCH_SIZE = 0}

\* C7: the in-loop commits are exactly one per handled record whose 1-based
\* position is a multiple of BATCH_SIZE; each is followed at once by its
\* progress report and each report follows its commit; one final commit
\* comes after the loop, after every in-loop commit and before the
\* verification count; when that count is read no UPDATE is uncommitted.
C7_CommitPoints ==
    /\ {events[k].at : k \in {j \in 1..Len(events) : events[j].kind = "commit"}}
          = BoundariesPassed
    /\ Count("commit") = Cardinality(BoundariesPassed)
    /\ \A k \in 1..Len(events) :
          /\ events[k].kind = "commit"
                => /\ k < Len(events)
                   /\ events[k + 1] = Event("report", events[k].at)
          /\ events[k].kind = "report"
                => /\ k > 1
                   /\ events[k - 1] = Event("commit", events[k].at)
          /\ events[k].kind = "final_commit"
                => \A j \in 1..Len(events) :
                      /\ events[j].kind = "commit" => j < k
                      /\ events[j].kind = "verify" => k < j
    /\ Count("final_commit") =
          (IF HasEvent("fetch") /\ pc \in {"verify", "probe", "exited"}
           THEN 1 ELSE IF pc = "killed" /\ HasEvent("summary") THEN 1 ELSE 0)
    /\ pc = "verify" => PendingWrites = {} /\ ~txAborted

\* the write of a partial trailing batch is covered by the final commit,
\* after an in-loop commit, and the verification count is about to be read
C7_Witness ==
    /\ pc = "verify"
    /\ BATCH_SIZE > 1
    /\ Count("commit") >= 1
    /\ Len(products) % BATCH_SIZE # 0
    /\ products[Len(products)] \in writes
    /\ committed[products[Len(products)]] # NULL

\* ---------------------------------------------------------------- C8
\* C8 as claimed: a run that got through its loop has emitted one progress
\* report per commit point, the final commit included.
C8_ReportPerCommit_Original ==
    Summarised => Count("report") = Count("commit") + Count("final_commit")

\* C8 as amended: a run that got through its loop has emitted one progress
\* report per in-loop commit, Len(products) \div BATCH_SIZE of them, at the
\* multiples of BATCH_SIZE; the final commit is followed by the summary and
\* by no progress report.
C8_ReportPerBatch ==
    Summarised =>
        /\ Count("report") = Len(products) \div BATCH_SIZE
        /\ {events[k].at : k \in {j \in 1..Len(events) : events[j].kind = "report"}}
              = {idx \in 1..Len(products) : idx % BATCH_SIZE = 0}
        /\ \A k \in 1..Len(events) :
              events[k].kind = "final_commit"
                 => /\ k < Len(events)
                    /\ events[k + 1].kind = "summary"
                    /\ \A j \in (k + 1)..Len(events) : events[j].kind # "report"

\* the scaled scenario: two full batches and a partial one, two reports
C8_Witness ==
    /\ Summarised
    /\ run = 1
    /\ Len(products) > 2 * BATCH_SIZE
    /\ Len(products) % BATCH_SIZE # 0
    /\ Count("report") = 2
    /\ Count("final_commit") = 1

\* ---------------------------------------------------------------- C9
\* C9: success_count + error_count is the number of records handled: i at
\* the head of an iteration, i + 1 once the record's outcome is counted,
\* and the size of the work list after the loop.
C9_CounterSum ==
    /\ pc \in {"embed", "update"} => success_count + error_count = i
    /\ pc = "batch" => success_count + error_count = i + 1
    /\ (pc \in {"final", "verify", "probe"} \/ Summarised)
          => /\ success_count + error_count = Len(products)
             /\ i = Len(products)

\* the loop is over and each of the three outcomes has been counted
C9_Witness ==
    /\ pc = "final"
    /\ success_count >= 1
    /\ failed.provider # {}
    /\ failed.store # {}

\* --------------------------------------------------------------- C10
\* C10: after a run in which the provider failed for exactly the records F
\* and no UPDATE was rejected, success_count = n - |F|, error_count = |F|,
\* the records of the work list outside F hold an embedding and those in F
\* hold none.
C10_ProviderFailureOutcome ==
    (Summarised /\ failed.store = {})
        => /\ success_count = Len(products) - Cardinality(failed.provider)
           /\ error_count = Cardinality(failed.provider)
           /\ failed.provider \subseteq SeqToSet(products)
           /\ \A s \in SeqToSet(products) :
                 IF s \in failed.provider
                 THEN committed[s] = NULL
                 ELSE committed[s] \in ProviderVectors

\* one provider failure in the middle of a work list of three or more
C10_Witness ==
    /\ pc = "exited"
    /\ Summarised
    /\ failed.store = {}
    /\ Len(products) >= 3
    /\ failed.provider = {products[2]}
    /\ success_count = Len(products) - 1
    /\ error_count = 1

\* --------------------------------------------------------------- C11
\* the provider calls made for records (the probe's call left out)
RecordCalls == SelectSeq(calls, LAMBDA c : c # 0)

\* C11: whatever fails, the loop attempts the records of the work list one
\* by one in ascending sku order, each exactly once: the calls made so far
\* are the first i (or i + 1) records, and once the loop is left (final
\* commit and after) they are the whole work list.
C11_FailuresNonFatal ==
    /\ \A k \in 1..(Len(products) - 1) : products[k] < products[k + 1]
    /\ pc = "embed" => RecordCalls = SubSeq(products, 1, i)
    /\ pc \in {"update", "batch"} => RecordCalls = SubSeq(products, 1, i + 1)
    /\ (pc \in {"final", "verify", "probe"} \/ Summarised)
          => RecordCalls = products
    /\ (HasEvent("fetch") /\ pc = "exited") => HasEvent("final_commit")

\* the first record failed at the provider, the second at the store, the
\* third was attempted all the same and the final commit is done
C11_Witness ==
    /\ pc = "verify"
    /\ Len(products) = 3
    /\ products[1] \in failed.provider
    /\ products[2] \in failed.store
    /\ RecordCalls = products

\* --------------------------------------------------------------- C12
\* the embedding column as the run found it when it was started
StartStore == prev.committed

\* C12: with the key unset and an endpoint that is not local (no "localhost"
\* in the URL) the run never gets to the connection attempt and can only
\* end with exit code 1; and whenever main() exits with code 1 (that, or the
\* connection failing) the run has made no provider call and no write, has
\* fetched, committed and printed nothing, and the store is as it found it;
\* a run that exits with code 0 got past both checks.
C12_FatalAbortsBeforeWork ==
    /\ (OPENAI_API_KEY = "" /\ ~HasLocalhost(OPENAI_BASE_URL))
          => /\ pc \in {"start", "exited", "killed"}
             /\ pc = "exited" => exit_code = 1
    /\ (pc = "exited" /\ exit_code = 1)
          => /\ calls = <<>>
             /\ writes = {}
             /\ events = <<>>
             /\ committed = StartStore
             /\ txn = committed
    /\ (pc = "exited" /\ exit_code = 0) => WorkDecided

\* a run whose connection attempt failed after an earlier run did embed
C12_Witness ==
    /\ run > 1
    /\ pc = "exited"
    /\ exit_code = 1
    /\ OPENAI_API_KEY # ""
    /\ \E s \in rows : committed[s] \in ProviderVectors
    /\ PendingSkus(committed) # {}

\* --------------------------------------------------------------- C13
\* C13: a run that found no eligible record (none active without embedding)
\* and has returned reported "nothing to do", exited with code 0 and made no
\* provider call and no write.
C13_NothingToDoRun ==
    (pc = "exited" /\ exit_code # 1 /\ PendingSkus(StartStore) = {})
        => /\ HasEvent("nothing_to_do")
           /\ exit_code = 0
           /\ calls = <<>>
           /\ writes = {}

\* --------------------------------------------------------------- C14
\* the steps of a process that is not killed from outside
NextNoKill ==
    \/ ValidateKey \/ ConnectOk \/ ConnectFail \/ CheckStatus
    \/ NothingToDo \/ FetchProducts
    \/ GenerateOk \/ GenerateFail
    \/ UpdateOk \/ UpdateRejected \/ EmbeddingMissing
    \/ BatchCommit \/ NoBatchCommit
    \/ FinalCommit \/ Verify \/ Probe \/ SkipProbe
    \/ Rerun

\* runs that are left alone: single-threaded code whose every blocking call
\* returns (spec section 5), so a step that can be taken is taken
SpecLive == Init /\ [][NextNoKill]_vars /\ WF_vars(NextNoKill)

\* C14 as claimed: every run that got past the fatal preconditions and has
\* returned has printed the summary.
C14_SummaryAlways_Original ==
    (pc = "exited" /\ exit_code = 0) => Summarised

\* C14 as amended: every run that got past the fatal preconditions and did
\* not take the "nothing to do" return (it fetched a work list) goes on to
\* print the summary, whatever fails per record; it never ends before that.
C14_SummaryAfterFetch ==
    /\ [](HasEvent("fetch") /\ pc = "exited" => Summarised)
    /\ (HasEvent("fetch") ~> Summarised)

\* a run in which every record failed has printed its summary
C14_Witness ==
    /\ Summarised
    /\ Len(products) >= 2
    /\ success_count = 0
    /\ failed.provider # {}
    /\ failed.store # {}

\* --------------------------------------------------------------- C15
\* how often x occurs in the sequence sq
Occurrences(sq, x) == Cardinality({k \in 1..Len(sq) : sq[k] = x})

\* the similarity probe got as far as its provider call
ProbeRan == HasEvent("probe") \/ HasEvent("probe_failed")

\* C15: a run fetches its work list at most once, calls the provider at
\* most once per record (and once for the probe), only for records of the
\* work list, and when it has returned after the loop the calls are one per
\* record of the work list, in order, plus one when the probe ran.
C15_NoRetrySingleFetch ==
    /\ Count("fetch") <= 1
    /\ \A s \in rows \cup {0} : Occurrences(calls, s) <= 1
    /\ \A k \in 1..Len(calls) :
          calls[k] # 0 => calls[k] \in SeqToSet(products)
    /\ ~HasEvent("fetch") => calls = <<>>
    /\ (pc = "exited" /\ Summarised)
          => /\ RecordCalls = products
             /\ Len(calls) = Len(products) + (IF ProbeRan THEN 1 ELSE 0)
             /\ ProbeRan <=> success_count > 0

\* provider failures were not retried: one call per record plus the probe
C15_Witness ==
    /\ pc = "exited"
    /\ Summarised
    /\ Len(products) >= 3
    /\ Cardinality(failed.provider) >= 2
    /\ ProbeRan
    /\ Len(calls) = Len(products) + 1

\* --------------------------------------------------------------- C16
\* position of the first event of a kind (0 when there is none)
FirstAt(kind) ==
    IF HasEvent(kind)
    THEN CHOOSE k \in 1..Len(events) :
            /\ events[k].kind = kind
            /\ \A j \in 1..(k - 1) : events[j].kind # kind
    ELSE 0

\* the final commit, then the verification count, then the probe; the probe
\* only after a success; a run that printed its summary returns with code 0
\* whatever the verification count is
C16_EndOfRunOrder ==
    /\ HasEvent("verify")
          => /\ HasEvent("final_commit")
             /\ FirstAt("final_commit") < FirstAt("verify")
    /\ \A k \in 1..Len(events) :
          events[k].kind \in {"probe", "probe_failed"}
             => /\ HasEvent("verify")
                /\ FirstAt("verify") < k
    /\ ProbeRan => success_count >= 1
    /\ (pc = "exited" /\ Summarised) => exit_code = 0 /\ HasEvent("verify")

\* C16: the end-of-run order and gating above hold throughout, and the
\* probe step writes nothing: neither the store nor the connection's view
\* of the embedding column changes.
C16_EndOfRunOrderAndProbe ==
    /\ []C16_EndOfRunOrder
    /\ [][pc = "probe" => committed' = committed /\ txn' = txn]_vars

\* the probe ran after a verification count that differs from the total
C16_Witness ==
    /\ pc = "exited"
    /\ exit_code = 0
    /\ HasEvent("probe")
    /\ final_count # total_count
    /\ success_count >= 1
    /\ error_count >= 1

\* --------------------------------------------------------------- C17
\* C17: the verification count equals the embedded count read at the start
\* of the run plus success_count, whatever failed at the provider or at the
\* store.
C17_CountersAgreeWithStore ==
    HasEvent("verify") => final_count = existing_count + success_count

pureInputs == <<rows, is_active, OPENAI_API_KEY, OPENAI_BASE_URL, BATCH_SIZE,
                committed, txn, txAborted, pc, exit_code, locals, run, calls,
                writes, events, atFetch, failed, prev, product, vector,
                setup>>

\* any row and any non-empty vector; main() is not running
InitPure ==
    /\ rows = {}
    /\ is_active = <<>> /\ committed = <<>> /\ txn = <<>>
    /\ txAborted = FALSE
    /\ OPENAI_API_KEY = "sk-titan"
    /\ OPENAI_BASE_URL = OPENAI_URL
    /\ BATCH_SIZE = 1
    /\ FreshProcess
    /\ atFetch = <<>>
    /\ run = 1
    /\ prev = NoPrev
    /\ product \in Products
    /\ vector \in Vectors
    /\ texts = <<>> /\ literals = <<>>
    /\ SetupIdle

\* text = create_product_text(product), line 186
ComposeText ==
    /\ Len(texts) < MaxCalls
    /\ texts' = Append(texts, create_product_text(product))
    /\ UNCHANGED <<pureInputs, literals>>

\* embedding_str = format_embedding_for_pgvector(embedding), line 193
FormatVector ==
    /\ Len(literals) < MaxCalls
    /\ literals' = Append(literals, format_embedding_for_pgvector(vector))
    /\ UNCHANGED <<pureInputs, texts>>

NextPure == ComposeText \/ FormatVector

SpecPure == InitPure /\ [][NextPure]_vars

RECURSIVE SplitOn(_, _)
\* t.split(sep) on token sequences
SplitOn(t, sep) ==
    IF \E k \in 1..Len(t) : t[k] = sep
    THEN LET k == CHOOSE n \in 1..Len(t) :
                     t[n] = sep /\ \A m \in 1..(n - 1) : t[m] # sep
         IN <<SubSeq(t, 1, k - 1)>> \o SplitOn(SubSeq(t, k + 1, Len(t)), sep)
    ELSE <<t>>

\* --------------------------------------------------------------- C19
\* the five segments in the claimed order, each with whether it is included
Candidates(p) ==
    << [on |-> TRUE, seg |-> Tok(p[2])],
       [on |-> p[3] # PyNone /\ p[3].s # "", seg |-> Tok(p[3].s)],
       [on |-> p[4] # PyNone /\ p[4].s # "",
        seg |-> <<"Category: ">> \o Tok(p[4].s)],
       [on |-> p[5] # PyNone /\ p[5].s # "",
        seg |-> <<"Subcategory: ">> \o Tok(p[5].s)],
       [on |-> p[6] # PyNone /\ p[6].s # "",
        seg |-> IF p[6].s \in {"AERO", "ENERGY", "MOBILITY", "INDUSTRIAL"}
                THEN <<division_names(p[6].s)>>
                ELSE <<"Division: ", p[6].s>>] >>

ExpectedSegments(p) ==
    LET picked == SelectSeq(Candidates(p), LAMBDA c : c.on)
    IN [k \in 1..Len(picked) |-> picked[k].seg]

\* C19: every call of create_product_text on a row returns the included
\* segments (name always, the others iff non-null and non-empty) in the
\* order name, description, category, subcategory, division, joined by
\* ". "; the sku is not part of it; repeated calls return the same text.
C19_TextComposition ==
    \A k \in 1..Len(texts) :
        /\ SplitOn(texts[k], ". ") = ExpectedSegments(product)
        /\ product[1] \notin SeqToSet(texts[k])
        /\ texts[k] = texts[1]

\* a row with a NULL description, an empty category, a subcategory and an
\* unknown division code, composed twice
C19_Witness ==
    /\ Len(texts) >= 2
    /\ product = <<"TB-1001", "Turbine Blade", PyNone, PyStr(""),
                   PyStr("Blades"), PyStr("MARINE")>>
    /\ texts[2] = <<"Turbine Blade", ". ", "Subcategory: ", "Blades", ". ",
                    "Division: ", "MARINE">>

\* --------------------------------------------------------------- C20
\* C20: the literal is "[", the elements' str() in their order separated by
\* single "," and nothing else, then "]": splitting what is between the
\* brackets on "," gives back one piece per element, in order, and reading
\* the literal as a vector gives the vector back.
C20_VectorLiteral ==
    \A k \in 1..Len(literals) :
        LET l == literals[k]
            n == Len(vector)
        IN /\ Len(l) = 2 * n + 1
           /\ l[1] = "["
           /\ l[Len(l)] = "]"
           /\ SplitOn(SubSeq(l, 2, Len(l) - 1), ",")
                 = [j \in 1..n |-> <<str(vector[j])>>]
           /\ SeqToSet(l) \subseteq {"[", "]", ","} \cup {str(x) : x \in Elems}
           /\ CastToVector(l) = vector

\* the vector of the spec's example, [0.1, -0.2, 0.3]
C20_Witness ==
    /\ vector = <<1, -2, 3>>
    /\ Len(literals) >= 1
    /\ literals[1] = <<"[", "0.1", ",", "-0.2", ",", "0.3", "]">>

\* ------------------------------------------------------ the catalog setup
\* everything of the embedding backfill; the setup never touches it
backfill == <<rows, is_active, OPENAI_API_KEY, OPENAI_BASE_URL, BATCH_SIZE,
              committed, txn, txAborted, pc, exit_code, locals, run, calls,
              writes, events, atFetch, failed, prev, pure>>
polling == <<attempts, resp_status, answered200, ready>>
ids == <<service_status, service_id, pipeline_status, pipeline_id>>
enrich == <<table_i, success>>

\* the catalog holds a pipeline only for a registered service
Catalogs == {c \in [service : BOOLEAN, pipeline : BOOLEAN] :
                 c.pipeline => c.service}

\* what GET /system/version can come to: status 0 stands for an exception of
\* requests.get (refused, timeout); json says whether the body parses to an
\* object, which resp.json().get('version') of line 47 needs
ProbeAnswers == {[status |-> 200, json |-> TRUE],
                 [status |-> 200, json |-> FALSE],
                 [status |-> 503, json |-> TRUE],
                 [status |-> 0,   json |-> FALSE]}

\* setup-titan.py is started against any catalog
InitSetup ==
    /\ rows = {}
    /\ is_active = <<>> /\ committed = <<>> /\ txn = <<>>
    /\ txAborted = FALSE
    /\ OPENAI_API_KEY = "sk-titan"
    /\ OPENAI_BASE_URL = OPENAI_URL
    /\ BATCH_SIZE = 1
    /\ FreshProcess
    /\ atFetch = <<>>
    /\ run = 1
    /\ prev = NoPrev
    /\ product = NoProduct /\ texts = <<>>
    /\ vector = <<>> /\ literals = <<>>
    /\ catalog \in Catalogs
    /\ setup_pc = "wait"
    /\ setup_run = 1
    /\ FreshSetup

Request(kind) == Append(requests, kind)

\* one iteration of the loop of wait_for_openmetadata, lines 43-51: only an
\* answer 200 whose body line 47 can read leads to `return True`; everything
\* else, an exception of line 47 included, falls to the sleep of line 51
PollOnce ==
    /\ setup_pc = "wait"
    /\ ready = "pending"
    /\ attempts < PollAttempts
    /\ \E a \in ProbeAnswers :
          /\ attempts' = attempts + 1
          /\ resp_status' = a.status
          /\ answered200' = (answered200 \/ a.status = 200)
          /\ ready' = IF a.status = 200 /\ a.json THEN "True" ELSE ready
    /\ UNCHANGED <<backfill, catalog, setup_pc, setup_run, setup_exit, ids,
                   enrich, requests>>

\* line 52: the loop ran out
PollExhausted ==
    /\ setup_pc = "wait"
    /\ ready = "pending"
    /\ attempts = PollAttempts
    /\ ready' = "False"
    /\ UNCHANGED <<backfill, catalog, setup_pc, setup_run, setup_exit,
                   attempts, resp_status, answered200, ids, enrich, requests>>

\* lines 368-370, wait_for_openmetadata() returned False
SetupUnavailable ==
    /\ setup_pc = "wait"
    /\ ready = "False"
    /\ setup_pc' = "exited"
    /\ setup_exit' = 1
    /\ UNCHANGED <<backfill, catalog, setup_run, polling, ids, enrich,
                   requests>>

\* line 368, wait_for_openmetadata() returned True
SetupReady ==
    /\ setup_pc = "wait"
    /\ ready = "True"
    /\ setup_pc' = "domains"
    /\ UNCHANGED <<backfill, catalog, setup_run, setup_exit, polling, ids,
                   enrich, requests>>

\* create_domains(), lines 55-76: six POSTs, any answer is only printed
CreateDomains ==
    /\ setup_pc = "domains"
    /\ requests' = Request("create_domains")
    /\ setup_pc' = "glossary"
    /\ UNCHANGED <<backfill, catalog, setup_run, setup_exit, polling, ids,
                   enrich>>

\* create_glossary(), lines 79-119
CreateGlossary ==
    /\ setup_pc = "glossary"
    /\ requests' = Request("create_glossary")
    /\ setup_pc' = "classifications"
    /\ UNCHANGED <<backfill, catalog, setup_run, setup_exit, polling, ids,
                   enrich>>

\* create_classifications(), lines 122-137
CreateClassifications ==
    /\ setup_pc = "classifications"
    /\ requests' = Request("create_classifications")
    /\ setup_pc' = "service"
    /\ UNCHANGED <<backfill, catalog, setup_run, setup_exit, polling, ids,
                   enrich>>

\* the id the catalog gives the service titan-greenplum / its pipeline
ServiceId == "service-1"
PipelineId == "pipeline-1"

\* what a creating POST can answer: 409 if the entity exists, 201 if it was
\* created, 500 for any refusal
CreateStatuses(exists) == (IF exists THEN {409} ELSE {201}) \cup {500}

\* create_greenplum_service(), lines 161-168 and 175-177: the POST and the
\* branches that return at once; after a 409 the lookup follows
CreateService ==
    /\ setup_pc = "service"
    /\ \E st \in CreateStatuses(catalog.service) :
          /\ service_status' = st
          /\ catalog' = IF st \in {200, 201}
                        THEN [catalog EXCEPT !.service = TRUE] ELSE catalog
          /\ service_id' = IF st \in {200, 201} THEN ServiceId ELSE NoId
          /\ setup_pc' = IF st = 409 THEN "service_lookup" ELSE "pipeline"
    /\ requests' = Request("register_service")
    /\ UNCHANGED <<backfill, setup_run, setup_exit, polling, pipeline_status,
                   pipeline_id, enrich>>

\* lines 169-174: GET the existing service by name; an exception, or an
\* answer without an "id", gives None
LookupService ==
    /\ setup_pc = "service_lookup"
    /\ \E found \in BOOLEAN :
          service_id' = IF found THEN ServiceId ELSE NoId
    /\ requests' = Request("lookup_service")
    /\ setup_pc' = "pipeline"
    /\ UNCHANGED <<backfill, catalog, setup_run, setup_exit, polling,
                   service_status, pipeline_status, pipeline_id, enrich>>

\* mutant: the pipeline is created whether or not there is a service id
CreatePipeline_Unconditional ==
    /\ setup_pc = "pipeline"
    /\ \E st \in CreateStatuses(catalog.pipeline) :
          /\ pipeline_status' = st
          /\ catalog' = IF st \in {200, 201}
                        THEN [catalog EXCEPT !.pipeline = TRUE] ELSE catalog
          /\ pipeline_id' = IF st \in {200, 201} THEN PipelineId ELSE NoId
    /\ requests' = Request("create_pipeline")
    /\ setup_pc' = "trigger"
    /\ UNCHANGED <<backfill, setup_run, setup_exit, polling, service_status,
                   service_id, enrich>>

\* create_ingestion_pipeline(service_id) with an id, lines 186-232
CreatePipeline ==
    /\ setup_pc = "pipeline"
    /\ service_id # NoId
    /\ \E st \in CreateStatuses(catalog.pipeline) :
          /\ pipeline_status' = st
          /\ catalog' = IF st \in {200, 201}
                        THEN [catalog EXCEPT !.pipeline = TRUE] ELSE catalog
          /\ pipeline_id' = IF st \in {200, 201} THEN PipelineId ELSE NoId
    /\ requests' = Request("create_pipeline")
    /\ setup_pc' = "trigger"
    /\ UNCHANGED <<backfill, setup_run, setup_exit, polling, service_status,
                   service_id, enrich>>

\* lines 182-184: no service id, the pipeline is skipped
SkipPipeline ==
    /\ setup_pc = "pipeline"
    /\ service_id = NoId
    /\ pipeline_id' = NoId
    /\ setup_pc' = "trigger"
    /\ UNCHANGED <<backfill, catalog, setup_run, setup_exit, polling,
                   service_status, service_id, pipeline_status, enrich,
                   requests>>

\* trigger_ingestion(pipeline_id) with an id, lines 240-246: the answer is
\* only printed
TriggerIngestion ==
    /\ setup_pc = "trigger"
    /\ pipeline_id # NoId
    /\ requests' = Request("trigger_ingestion")
    /\ setup_pc' = "sleep"
    /\ UNCHANGED <<backfill, catalog, setup_run, setup_exit, polling, ids,
                   enrich>>

\* lines 237-238
SkipTrigger ==
    /\ setup_pc = "trigger"
    /\ pipeline_id = NoId
    /\ setup_pc' = "sleep"
    /\ UNCHANGED <<backfill, catalog, setup_run, setup_exit, polling, ids,
                   enrich, requests>>

\* lines 383-385: time.sleep(30)
WaitForIngestion ==
    /\ setup_pc = "sleep"
    /\ pipeline_id # NoId
    /\ requests' = Request("sleep_30")
    /\ setup_pc' = "descriptions"
    /\ UNCHANGED <<backfill, catalog, setup_run, setup_exit, polling, ids,
                   enrich>>

\* line 383, pipeline_id is None
SkipWait ==
    /\ setup_pc = "sleep"
    /\ pipeline_id = NoId
    /\ setup_pc' = "descriptions"
    /\ UNCHANGED <<backfill, catalog, setup_run, setup_exit, polling, ids,
                   enrich, requests>>

\* what one table of an enrichment loop comes to: not ingested yet, patched,
\* patch refused, or an exception (swallowed, lines 297 and 350)
TableOutcomes == {"absent", "patched", "refused", "raised"}

\* one table of add_table_descriptions(), lines 278-298
DescribeTable ==
    /\ setup_pc = "descriptions"
    /\ table_i < NumTables
    /\ \E o \in TableOutcomes :
          success' = IF o = "patched" THEN success + 1 ELSE success
    /\ table_i' = table_i + 1
    /\ requests' = Request("describe_table")
    /\ UNCHANGED <<backfill, catalog, setup_pc, setup_run, setup_exit,
                   polling, ids>>

\* lines 300-303, then assign_tables_to_domains() starts (line 323)
DescriptionsDone ==
    /\ setup_pc = "descriptions"
    /\ table_i = NumTables
    /\ table_i' = 0 /\ success' = 0
    /\ setup_pc' = "domain_assignment"
    /\ UNCHANGED <<backfill, catalog, setup_run, setup_exit, polling, ids,
                   requests>>

\* one table of assign_tables_to_domains(), lines 324-351
AssignTable ==
    /\ setup_pc = "domain_assignment"
    /\ table_i < NumTables
    /\ \E o \in TableOutcomes :
          success' = IF o = "patched" THEN success + 1 ELSE success
    /\ table_i' = table_i + 1
    /\ requests' = Request("assign_table")
    /\ UNCHANGED <<backfill, catalog, setup_pc, setup_run, setup_exit,
                   polling, ids>>

\* lines 353-397: "Setup complete!", main() returns
SetupComplete ==
    /\ setup_pc = "domain_assignment"
    /\ table_i = NumTables
    /\ setup_pc' = "exited"
    /\ setup_exit' = 0
    /\ UNCHANGED <<backfill, catalog, setup_run, polling, ids, enrich,
                   requests>>

\* a request outside any try block raises (lines 74, 88, 117, 135, 162, 166,
\* 222, 226, 241): the traceback ends the process with status 1
SetupRaises ==
    /\ \/ setup_pc \in {"domains", "glossary", "classifications", "service"}
       \/ setup_pc = "pipeline" /\ service_id # NoId
       \/ setup_pc = "trigger" /\ pipeline_id # NoId
    /\ setup_pc' = "exited"
    /\ setup_exit' = 1
    /\ UNCHANGED <<backfill, catalog, setup_run, polling, ids, enrich,
                   requests>>

\* python setup-titan.py once more, against the catalog as it is now
RerunSetup ==
    /\ setup_pc = "exited"
    /\ setup_run < MaxSetupRuns
    /\ setup_run' = setup_run + 1
    /\ setup_pc' = "wait"
    /\ setup_exit' = -1
    /\ attempts' = 0 /\ resp_status' = 0 /\ answered200' = FALSE
    /\ ready' = "pending"
    /\ service_status' = 0 /\ service_id' = NoId
    /\ pipeline_status' = 0 /\ pipeline_id' = NoId
    /\ table_i' = 0 /\ success' = 0
    /\ requests' = <<>>
    /\ UNCHANGED <<backfill, catalog>>

NextSetup ==
    \/ PollOnce \/ PollExhausted \/ SetupUnavailable \/ SetupReady
    \/ CreateDomains \/ CreateGlossary \/ CreateClassifications
    \/ CreateService \/ LookupService
    \/ CreatePipeline \/ SkipPipeline
    \/ TriggerIngestion \/ SkipTrigger
    \/ WaitForIngestion \/ SkipWait
    \/ DescribeTable \/ DescriptionsDone
    \/ AssignTable \/ SetupComplete
    \/ SetupRaises
    \/ RerunSetup

SpecSetup == InitSetup /\ [][NextSetup]_vars

\* --------------------------------------------------------------- C21
\* C21: wait_for_openmetadata probes at most 60 times; it returns True at
\* the first probe answered with status 200 (so no probe follows a 200);
\* it returns False only after 60 probes none of which answered 200; and
\* after False main() exits non-zero with no catalog call issued.
C21_ReadinessPolling ==
    /\ attempts <= 60
    /\ answered200 => ready = "True"
    /\ ready = "True" => resp_status = 200
    /\ ready = "False" => (attempts = 60 /\ ~answered200)
    /\ (ready = "False" /\ setup_pc = "exited")
          => (setup_exit > 0 /\ requests = <<>>)
    /\ (ready = "False" /\ setup_pc # "exited") => setup_pc = "wait"

\* --------------------------------------------------------------- C22
\* the call or wait `kind` has happened in this run
Issued(kind) == \E k \in 1..Len(requests) : requests[k] = kind

\* every `b` of this run comes after some `a`
Before(a, b) ==
    \A k \in 1..Len(requests) :
        requests[k] = b => \E j \in 1..(k - 1) : requests[j] = a

\* main() is past create_greenplum_service()
ServiceSettled == setup_pc \notin {"wait", "domains", "glossary",
                                   "classifications", "service",
                                   "service_lookup"}
                  /\ service_status # 0

\* main() is past the 30-second wait of lines 383-385
PastWait == setup_pc \in {"descriptions", "domain_assignment"}
            \/ (setup_pc = "exited" /\ setup_exit = 0)

\* the pipeline is created only with a service id and after the
\* registration; without an id it is skipped
PipelineNeedsService ==
    /\ Issued("create_pipeline") => (service_id # NoId /\ ServiceSettled)
    /\ Before("register_service", "create_pipeline")
    /\ (ServiceSettled /\ service_id = NoId)
          => (~Issued("create_pipeline") /\ pipeline_id = NoId
              /\ pipeline_status = 0)
    /\ (ServiceSettled /\ service_status \notin {200, 201, 409})
          => service_id = NoId
    /\ (ServiceSettled /\ service_status \in {200, 201})
          => service_id = ServiceId

\* trigger and wait only after a pipeline creation answered 200/201, and
\* then both, in this order
TriggerGating ==
    /\ Issued("trigger_ingestion") => pipeline_status \in {200, 201}
    /\ Issued("sleep_30") => pipeline_status \in {200, 201}
    /\ Before("create_pipeline", "trigger_ingestion")
    /\ Before("trigger_ingestion", "sleep_30")
    /\ (PastWait /\ pipeline_status \in {200, 201})
          => (Issued("trigger_ingestion") /\ Issued("sleep_30"))

\* after a 409 on the pipeline: no trigger, no wait, and the run cannot end
\* before both enrichment steps have run
AlreadyConfigured ==
    pipeline_status = 409 =>
        /\ ~Issued("trigger_ingestion") /\ ~Issued("sleep_30")
        /\ setup_pc \in {"trigger", "sleep", "descriptions",
                         "domain_assignment", "exited"}
        /\ setup_pc = "exited" =>
              /\ setup_exit = 0
              /\ Issued("describe_table") /\ Issued("assign_table")
              /\ Before("describe_table", "assign_table")

\* after a 409 on the pipeline the next steps go straight on to the table
\* descriptions, with no call and no wait in between
ProceedsAfter409 ==
    (pipeline_status = 409 /\ setup_pc \in {"trigger", "sleep"})
        => (requests' = requests /\ setup_pc' \in {"sleep", "descriptions"})

\* C22 as stated: as C22_OrderingAndGating below, and every 409 answer of
\* the service registration yields the existing service's id.
C22_OrderingAndGating_Original ==
    /\ [](PipelineNeedsService /\ TriggerGating /\ AlreadyConfigured)
    /\ []((ServiceSettled /\ service_status = 409) => service_id = ServiceId)
    /\ [][ProceedsAfter409]_vars

\* C22: the pipeline is created only after the service registration has
\* yielded a service id; a 409 answer yields the existing service's id when
\* the lookup by name returns it and none when that lookup fails; any other
\* failure yields none; without an id pipeline creation is skipped.  The
\* ingestion is triggered and the 30-second wait taken only when pipeline
\* creation answered 200/201; after a 409 on the pipeline there is no
\* trigger and no wait and the run goes on to the table descriptions and
\* the domain assignment.
C22_OrderingAndGating ==
    /\ [](PipelineNeedsService /\ TriggerGating /\ AlreadyConfigured)
    /\ []((ServiceSettled /\ service_status = 409)
             => (service_id \in {ServiceId, NoId} /\ catalog.service
                 /\ Issued("lookup_service")))
    /\ [][ProceedsAfter409]_vars

\* a second run against the configured catalog: 409 for the service (id
\* looked up) and for the pipeline, no trigger, run complete
C22_Witness ==
    /\ setup_run = 2
    /\ service_status = 409 /\ service_id = ServiceId
    /\ pipeline_status = 409 /\ pipeline_id = NoId
    /\ setup_pc = "exited" /\ setup_exit = 0
    /\ requests = <<"create_domains", "create_glossary",
                    "create_classifications", "register_service",
                    "lookup_service", "create_pipeline", "describe_table",
                    "describe_table", "assign_table", "assign_table">>
====
